---- MODULE Spec2Model ----
(***************************************************************************)
(* A model of the Game Jolt API client (package gamejolt): the URL         *)
(* formatter, the signer, the endpoint registry, the Requester and the     *)
(* subcomponents that call it.                                             *)
(*                                                                         *)
(* Python values are tagged records ([none], [int], [str], [bool]); a      *)
(* Python str is a text: a sequence of chunks, each chunk either one       *)
(* character that quote_plus rewrites or a run of characters it leaves     *)
(* alone. Str flattens a text to the string it denotes. A Python dict that *)
(* is iterated (query parameters) is a sequence of <<key, value>> pairs in *)
(* insertion order; a dict that is only indexed is a function.  A call     *)
(* yields an outcome: a returned value or a raised exception, together     *)
(* with the URLs it handed to the transport (_post).                       *)
(***************************************************************************)
EXTENDS Naturals, Sequences, FiniteSets, TLC

VARIABLES requester, transport_calls, last

vars == <<requester, transport_calls, last>>

(* ------------------------------ bounds -------------------------------- *)

\* How many transport invocations a behaviour records before it stops.
MaxTransportCalls == 1

(* --------------------------- Python values ---------------------------- *)

None == [none |-> TRUE]

PInt(n) == [int |-> n]

PStr(t) == [str |-> t]

PBool(b) == [bool |-> b]

IsStr(v) == DOMAIN v = {"str"}

IsInt(v) == DOMAIN v = {"int"}

\* isinstance(x, User)
IsUser(x) == "username" \in DOMAIN x

\* A positional argument the caller left out
NoArgument == [missing |-> TRUE]

RECURSIVE Str(_)
Str(t) == IF t = <<>> THEN "" ELSE Head(t) \o Str(Tail(t))

Digits == <<"0", "1", "2", "3", "4", "5", "6", "7", "8", "9">>

\* v == "literal", for v a Python value
StrEquals(v, literal) == IsStr(v) /\ Str(v.str) = literal

RECURSIVE IntText(_)
IntText(n) == IF n < 10 THEN <<Digits[n + 1]>>
              ELSE IntText(n \div 10) \o <<Digits[(n % 10) + 1]>>

\* str(v), as urlencode applies it to a value that is not already a str
py_str(v) ==
  CASE DOMAIN v = {"none"} -> <<"None">>
    [] DOMAIN v = {"bool"} -> IF v.bool THEN <<"True">> ELSE <<"False">>
    [] DOMAIN v = {"int"}  -> IntText(v.int)
    [] DOMAIN v = {"str"}  -> v.str

(* ----------------------------- outcomes ------------------------------- *)

Ok(v, sent) == [kind |-> "ok", value |-> v, sent |-> sent]

Raise(e, sent) == [kind |-> "raise", exc |-> e, sent |-> sent]

Exc(type, msg) == [type |-> type, msg |-> msg]

Raised(o) == o.kind = "raise"

(* ------------------------- ordered dictionaries ------------------------ *)

Keys(d) == {d[i][1] : i \in 1..Len(d)}

Get(d, k) == d[CHOOSE i \in 1..Len(d) : d[i][1] = k][2]

\* d[k] = v on a dict: a present key keeps its position, a new key goes last
SetItem(d, k, v) ==
  IF k \in Keys(d)
    THEN [i \in 1..Len(d) |-> IF d[i][1] = k THEN <<k, v>> ELSE d[i]]
    ELSE Append(d, <<k, v>>)

RECURSIVE DictMergeFirstWins(_, _)
DictMergeFirstWins(d1, d2) ==
  IF d2 = <<>> THEN d1
  ELSE DictMergeFirstWins(
         IF Head(d2)[1] \in Keys(d1) THEN d1 ELSE Append(d1, Head(d2)), Tail(d2))

RECURSIVE DictMergeMoveLast(_, _)
DictMergeMoveLast(d1, d2) ==
  IF d2 = <<>> THEN d1
  ELSE DictMergeMoveLast(
         Append(SelectSeq(d1, LAMBDA p : p[1] /= Head(d2)[1]), Head(d2)), Tail(d2))

\* d1 | d2: a copy of d1 updated with the items of d2 in their order
RECURSIVE DictMerge(_, _)
DictMerge(d1, d2) ==
  IF d2 = <<>> THEN d1
  ELSE DictMerge(SetItem(d1, Head(d2)[1], Head(d2)[2]), Tail(d2))

(* ------------------------------ constants ------------------------------ *)

BASE_URL == <<"https://api.gamejolt.com/api/game/">>

API_VERSION == <<"v1_2">>

VERSIONS == [v1 |-> 1, v1_1 |-> 2, v1_2 |-> 3]

supported_formats_with_yaml == {"json", "keypair", "dump", "xml", "yaml"}

supported_formats == {"json", "keypair", "dump", "xml"}

Endpoints ==
  [USERS     |-> [FETCH |-> <<"/users">>, AUTH |-> <<"/users/auth">>],
   SESSIONS  |-> [OPEN  |-> <<"/sessions/open">>, PING |-> <<"/sessions/ping">>,
                  CHECK |-> <<"/sessions/check">>, CLOSE |-> <<"/sessions/close">>],
   SCORES    |-> [FETCH |-> <<"/scores/">>, ADD |-> <<"/scores/add">>,
                  GET_RANK |-> <<"/scores/get-rank">>, TABLES |-> <<"/scores/tables">>],
   TROPHIES  |-> [FETCH |-> <<"/trophies">>,
                  ADD_ACHIEVED |-> <<"/trophies/add-achieved">>,
                  REMOVE_ACHIEVED |-> <<"/trophies/remove-achieved">>],
   DATASTORE |-> [FETCH |-> <<"/data-store/fetch">>,
                  GET_KEYS |-> <<"/data-store/get-keys">>,
                  REMOVE |-> <<"/data-store/remove">>,
                  SET |-> <<"/data-store/set">>,
                  UPDATE |-> <<"/data-store/update">>],
   FRIENDS   |-> [FETCH |-> <<"/friends">>],
   TIME      |-> [FETCH |-> <<"/time">>]]

(* --------------------------- urllib.parse ------------------------------ *)

\* The chunks quote_plus rewrites; every other chunk is a run of characters
\* of its safe set (letters, digits, "_.-~") and is left as it is.
QuoteTable(encoding) ==
  [c \in {" ", "&", "=", "/", "?", "*", ",", "é"} |->
     CASE c = " " -> "+"
       [] c = "*" -> "%2A"
       [] c = "," -> "%2C"
       [] c = "&" -> "%26"
       [] c = "=" -> "%3D"
       [] c = "/" -> "%2F"
       [] c = "?" -> "%3F"
       [] c = "é" -> IF encoding = "utf-8" THEN "%C3%A9" ELSE "%E9"]

quote_plus(t, encoding) ==
  [i \in 1..Len(t) |->
     IF t[i] \in DOMAIN QuoteTable(encoding) THEN QuoteTable(encoding)[t[i]] ELSE t[i]]

RECURSIVE urlencode(_, _)
urlencode(query, encoding) ==
  IF query = <<>> THEN <<>>
  ELSE quote_plus(<<Head(query)[1]>>, encoding) \o <<"=">>
         \o quote_plus(py_str(Head(query)[2]), encoding)
         \o (IF Tail(query) = <<>> THEN <<>>
             ELSE <<"&">> \o urlencode(Tail(query), encoding))

NonAscii == {"é"}

IsAscii(t) == \A i \in 1..Len(t) : t[i] \notin NonAscii

\* hashlib.md5(bytes).hexdigest(): the digest is a run of hexadecimal digits
\* determined by the digested string; it is kept symbolic, one chunk.
md5_hexdigest(s) == "md5[" \o s \o "]"

(* ----------------------------- endpoints.py ---------------------------- *)

format_queries(url, encoding, queries) ==
  (IF url /= <<>> THEN url \o <<"?">> ELSE <<>>) \o urlencode(queries, encoding)

FormatterAbstract_init(base, version, kwargs) ==
  [base_url |-> base, api_version |-> version, queries |-> kwargs]

FormatterAbstract_format_url(self, endpoint) ==
  self.base_url \o self.api_version \o endpoint

\* self.queries once format_queries has run, had the merge been made in
\* place (self.queries |= queries)
FormatterAbstract_queries_after_in_place(self, queries) ==
  DictMerge(self.queries, queries)

\* self.queries once format_queries has run: `self.queries | queries` builds
\* a new dict and leaves its operands as they were
FormatterAbstract_queries_after(self, queries) == self.queries

FormatterAbstract_format_queries(self, url, encoding, queries) ==
  format_queries(url, encoding, DictMerge(self.queries, queries))

FormatterAbstract_format(self, endpoint, queries) ==
  FormatterAbstract_format_queries(
    self, FormatterAbstract_format_url(self, endpoint), "utf-8", queries)

(* ----------------------------- requester.py ---------------------------- *)

generate_signature_key_first(url, key) ==
  IF IsAscii(url \o key)
    THEN Ok(<<md5_hexdigest(Str(key \o url))>>, <<>>)
    ELSE Raise(Exc("UnicodeEncodeError", "'ascii' codec can't encode character"), <<>>)

generate_signature(url, key) ==
  IF IsAscii(url \o key)
    THEN Ok(<<md5_hexdigest(Str(url \o key))>>, <<>>)
    ELSE Raise(Exc("UnicodeEncodeError", "'ascii' codec can't encode character"), <<>>)

RequesterAbstract_generate_signature(self, url) ==
  generate_signature(url, self.private_key)

RequesterAbstract_init(key, game, response_format, base, version, kwargs) ==
  IF response_format \notin supported_formats
    THEN Raise(Exc("ValueError", "Invalid response format"), <<>>)
    ELSE Ok([private_key |-> key]
              @@ FormatterAbstract_init(
                   base, version,
                   <<<<"game_id", game>>, <<"format", PStr(<<response_format>>)>>>>
                     \o kwargs),
            <<>>)

\* A signer that also sends the key along
RequesterAbstract_format_signature_key_in_clear(self, url) ==
  LET sig == RequesterAbstract_generate_signature(self, url)
  IN  IF Raised(sig) THEN sig
      ELSE Ok(url \o <<"&">>
                \o format_queries(<<>>, "utf-8",
                                  <<<<"key", PStr(self.private_key)>>,
                                    <<"signature", PStr(sig.value)>>>>),
              <<>>)

RequesterAbstract_format_signature(self, url) ==
  LET sig == RequesterAbstract_generate_signature(self, url)
  IN  IF Raised(sig) THEN sig
      ELSE Ok(url \o <<"&">>
                \o format_queries(<<>>, "utf-8", <<<<"signature", PStr(sig.value)>>>>),
              <<>>)

RequesterAbstract_format(self, endpoint, queries) ==
  RequesterAbstract_format_signature(
    self, FormatterAbstract_format(self, endpoint, queries))

(* ------------------------------ models --------------------------------- *)

\* GenericModel.from_dict for Response: the keys that are parameters of the
\* dataclass are kept; success and response are required, message defaults
\* to None.
Response_from_dict_no_message(data) ==
  IF ~({"success", "response"} \subseteq DOMAIN data)
    THEN Raise(Exc("TypeError", "Response.__init__() missing required argument"), <<>>)
    ELSE Ok([success |-> data.success, response |-> data.response, message |-> None],
            <<>>)

Response_from_dict(data) ==
  IF ~({"success", "response"} \subseteq DOMAIN data)
    THEN Raise(Exc("TypeError", "Response.__init__() missing required argument"), <<>>)
    ELSE Ok([success |-> data.success,
             response |-> data.response,
             message |-> IF "message" \in DOMAIN data THEN data.message ELSE None],
            <<>>)

TimeFields ==
  {"timestamp", "timezone", "year", "month", "day", "hour", "minute", "second"}

Time_from_dict(data) ==
  IF ~(TimeFields \subseteq DOMAIN data)
    THEN Raise(Exc("TypeError", "Time.__init__() missing required argument"), <<>>)
    ELSE Ok([k \in TimeFields |-> data[k]], <<>>)

TrophyFields == {"id", "title", "description", "difficulty", "image_url", "achieved"}

\* int(x) for an int, or for a str of decimal digits
RECURSIVE TextInt(_)
TextInt(t) ==
  IF t = <<>> THEN 0
  ELSE TextInt(SubSeq(t, 1, Len(t) - 1)) * 10
         + ((CHOOSE i \in 1..10 : Digits[i] = t[Len(t)]) - 1)

py_int(v) ==
  IF IsInt(v) THEN Ok(v.int, <<>>)
  ELSE IF IsStr(v) /\ v.str /= <<>>
            /\ \A i \in 1..Len(v.str) : \E j \in 1..10 : Digits[j] = v.str[i]
    THEN Ok(TextInt(v.str), <<>>)
    ELSE Raise(Exc("ValueError", "invalid literal for int()"), <<>>)

Trophy_from_dict(data) ==
  IF ~(TrophyFields \subseteq DOMAIN data)
    THEN Raise(Exc("TypeError", "Trophy.__init__() missing required argument"), <<>>)
    ELSE LET id == py_int(data.id)
         IN  IF Raised(id) THEN id
             ELSE Ok([k \in TrophyFields |-> IF k = "id" THEN PInt(id.value) ELSE data[k]],
                     <<>>)

Trophy_from_list(data) ==
  IF \E i \in 1..Len(data) : Raised(Trophy_from_dict(data[i]))
    THEN Trophy_from_dict(
           data[CHOOSE i \in 1..Len(data) :
                  /\ Raised(Trophy_from_dict(data[i]))
                  /\ \A j \in 1..(i - 1) : ~Raised(Trophy_from_dict(data[j]))])
    ELSE Ok([i \in 1..Len(data) |-> Trophy_from_dict(data[i]).value], <<>>)

(* ------------------------------ errors.py ------------------------------ *)

ApiError(message, response) ==
  [type |-> "ApiError", message |-> message, response |-> response]

TrophiesErrors(type, message, trophy_id, user, response) ==
  [type |-> type, message |-> message, response |-> response,
   trophy_id |-> trophy_id, user |-> user]

(* ------------------------- requester.py: post -------------------------- *)

\* post with every failure of the round trip reported as one error type
RequesterAbstract_post_wrapping(self, url, stub) ==
  IF stub.kind = "decoded" /\ stub.evaled.success
    THEN Ok(stub.evaled, <<url>>)
    ELSE Raise(Exc("RequestError", "the request failed"), <<url>>)

\* The transport (_post) and the decoder (evaluate) are supplied by the
\* embedding application; `stub` says what they do on this call: _post
\* raises, evaluate raises, or evaluate returns the dict stub.evaled. The
\* raw response _post returns is the stub itself; a decoder handed anything
\* but a decodable response raises.
RequesterAbstract__post(self, url, stub) ==
  IF stub.kind = "post_raises"
    THEN Raise(Exc("TransportError", "raised by _post"), <<url>>)
    ELSE Ok(stub, <<url>>)

RequesterAbstract_evaluate(self, response) ==
  IF response.kind /= "decoded"
    THEN Raise(Exc("DecodeError", "raised by evaluate"), <<>>)
    ELSE Ok(response.evaled, <<>>)

RequesterAbstract_post(self, url, stub) ==
  LET response == RequesterAbstract__post(self, url, stub)
  IN  IF Raised(response) THEN response
      ELSE
        LET evaled == RequesterAbstract_evaluate(self, response.value)
        IN  IF Raised(evaled) THEN Raise(evaled.exc, <<url>>)
            ELSE
              LET evaled_response == evaled.value
                  response_model == Response_from_dict(evaled_response)
              IN  IF Raised(response_model) THEN Raise(response_model.exc, <<url>>)
                  ELSE IF ~evaled_response.success
                    THEN IF "message" \notin DOMAIN evaled_response
                           THEN Raise(Exc("KeyError", "message"), <<url>>)
                           ELSE Raise(ApiError(evaled_response.message,
                                               response_model.value),
                                      <<url>>)
                    ELSE Ok(response_model.value, <<url>>)

(* ----------------- endpoints.py: the endpoint wrappers ----------------- *)

AttributeError(type, attr) ==
  Exc("AttributeError", "'" \o type \o "' has no attribute '" \o attr \o "'")

\* utils.py: AttrDict. Attribute access is item access, a missing key being
\* an AttributeError; item access is dict's own.
dict_getitem(d, key) ==
  IF key \in DOMAIN d THEN Ok(d[key], <<>>)
  ELSE Raise(Exc("KeyError", key), <<>>)

AttrDict_getattr(d, attr) ==
  IF Raised(dict_getitem(d, attr))
    THEN Raise(AttributeError("AttrDict", attr), <<>>)
    ELSE dict_getitem(d, attr)

\* A Formatter that puts off the registry lookup until an operation is asked
Formatter_getattr_lazy(self, key) ==
  Ok([formatter |-> self,
      endpoints |-> IF key \in DOMAIN Endpoints THEN Endpoints[key]
                    ELSE [o \in {} |-> <<>>]], <<>>)

Formatter_getattr(self, key) ==
  IF key \in DOMAIN Endpoints
    THEN Ok([formatter |-> self, endpoints |-> Endpoints[key]], <<>>)
    ELSE Raise(AttributeError("RequesterAbstract", key), <<>>)

EndpointWrapper_getattr(wrapper, key) ==
  IF key \in {"formatter", "endpoints"}
    THEN Ok([attribute |-> wrapper[key]], <<>>)
  ELSE IF key \in DOMAIN wrapper.endpoints
    THEN Ok([formatter |-> wrapper.formatter, endpoint |-> wrapper.endpoints[key]], <<>>)
    ELSE Raise(AttributeError("EndpointWrapper", key), <<>>)

\* The items of an EndpointWrapper are what its __init__ assigned through
\* AttrDict.__setattr__: endpoints and formatter, and nothing else.
EndpointWrapper_getitem(wrapper, key) == dict_getitem(wrapper, key)

\* The wrapper calling the base class's format whatever the formatter is
Formatter_format_unsigned(self, endpoint, queries) ==
  Ok(FormatterAbstract_format(self, endpoint, queries), <<>>)

\* self.formatter.format(...): the format of the formatter's own class
Formatter_format(self, endpoint, queries) ==
  IF "private_key" \in DOMAIN self
    THEN RequesterAbstract_format(self, endpoint, queries)
    ELSE Ok(FormatterAbstract_format(self, endpoint, queries), <<>>)

\* self.CATEGORY.OPERATION: the two attribute reads, no call
EndpointAccess(self, category, operation) ==
  LET wrapper == Formatter_getattr(self, category)
  IN  IF Raised(wrapper) THEN wrapper
      ELSE EndpointWrapper_getattr(wrapper.value, operation)

\* self.CATEGORY[OPERATION]
EndpointItem(self, category, operation) ==
  LET wrapper == Formatter_getattr(self, category)
  IN  IF Raised(wrapper) THEN wrapper
      ELSE EndpointWrapper_getitem(wrapper.value, operation)

\* Endpoints.CATEGORY.OPERATION and Endpoints[CATEGORY][OPERATION]
Endpoints_attribute(category, operation) ==
  LET entries == AttrDict_getattr(Endpoints, category)
  IN  IF Raised(entries) THEN entries ELSE AttrDict_getattr(entries.value, operation)

Endpoints_item(category, operation) ==
  LET entries == dict_getitem(Endpoints, category)
  IN  IF Raised(entries) THEN entries ELSE dict_getitem(entries.value, operation)

\* self.CATEGORY.OPERATION(**queries)
EndpointCall(self, category, operation, queries) ==
  LET wrapper == Formatter_getattr(self, category)
  IN  IF Raised(wrapper) THEN wrapper
      ELSE LET bound == EndpointWrapper_getattr(wrapper.value, operation)
           IN  IF Raised(bound) THEN bound
               ELSE IF "endpoint" \notin DOMAIN bound.value
                 THEN Raise(Exc("TypeError", "object is not callable"), <<>>)
                 ELSE Formatter_format(
                        bound.value.formatter, bound.value.endpoint, queries)

\* self.requester.post(self.requester.CATEGORY.OPERATION(**queries))
\* A subcomponent that formats the URL itself and leaves the signature out
PostEndpoint_unsigned(self, category, operation, queries, stub) ==
  RequesterAbstract_post(
    self, FormatterAbstract_format(self, Endpoints[category][operation], queries), stub)

PostEndpoint(self, category, operation, queries, stub) ==
  LET url == EndpointCall(self, category, operation, queries)
  IN  IF Raised(url) THEN url ELSE RequesterAbstract_post(self, url.value, stub)

(* ---------------------- subcomponents/helpers.py ----------------------- *)

Pass == Ok(None, <<>>)

api_version_guard(self, api_version) ==
  IF Str(self.api_version) \notin DOMAIN VERSIONS
    THEN Raise(Exc("KeyError", Str(self.api_version)), <<>>)
  ELSE IF VERSIONS[Str(self.api_version)] < VERSIONS[api_version]
    THEN Raise(Exc("ValueError", "API version mismatch"), <<>>)
    ELSE Pass

token_required_unchecked(user) ==
  IF "token" \notin DOMAIN user
    THEN Raise(AttributeError("User", "token"), <<>>)
    ELSE Pass

token_required(user) ==
  IF "token" \notin DOMAIN user
    THEN Raise(AttributeError("User", "token"), <<>>)
  ELSE IF user.token = None
    THEN Raise(Exc("ValueError", "A user token is required."), <<>>)
    ELSE Pass

UserAuth(user) == <<<<"username", user.username>>, <<"user_token", user.token>>>>

(* ---------------------- subcomponents/sessions.py ---------------------- *)

SessionsComponent_open(self, user, stub) ==
  LET guard == token_required(user)
  IN  IF Raised(guard) THEN guard
      ELSE LET response == PostEndpoint(self, "SESSIONS", "OPEN", UserAuth(user), stub)
           IN  IF Raised(response) THEN response
               ELSE Ok(response.value.success, response.sent)

SessionsComponent_ping(self, user, stub) ==
  LET guard == token_required(user)
  IN  IF Raised(guard) THEN guard
      ELSE LET response == PostEndpoint(self, "SESSIONS", "PING", UserAuth(user), stub)
           IN  IF Raised(response) THEN response
               ELSE Ok(response.value.success, response.sent)

\* check with its two decorators exchanged: the token is tested first
SessionsComponent_check_token_first(self, user, stub) ==
  LET guard == token_required(user)
      version == api_version_guard(self, "v1_2")
  IN  IF Raised(guard) THEN guard
      ELSE IF Raised(version) THEN version
      ELSE LET response == PostEndpoint(self, "SESSIONS", "CHECK", UserAuth(user), stub)
           IN  IF Raised(response) THEN response
               ELSE Ok(response.value.success, response.sent)

SessionsComponent_check(self, user, stub) ==
  LET version == api_version_guard(self, "v1_2")
      guard == token_required(user)
  IN  IF Raised(version) THEN version
      ELSE IF Raised(guard) THEN guard
      ELSE LET response == PostEndpoint(self, "SESSIONS", "CHECK", UserAuth(user), stub)
           IN  IF Raised(response) /\ response.exc.type = "ApiError"
                 THEN IF response.exc.response.message /= None
                        THEN response
                        ELSE Ok(FALSE, response.sent)
               ELSE IF Raised(response) THEN response
               ELSE Ok(response.value.success, response.sent)

SessionsComponent_close(self, user, stub) ==
  LET guard == token_required(user)
  IN  IF Raised(guard) THEN guard
      ELSE LET response == PostEndpoint(self, "SESSIONS", "CLOSE", UserAuth(user), stub)
           IN  IF Raised(response) THEN response
               ELSE Ok(response.value.success, response.sent)

(* ---------------------- subcomponents/trophies.py ---------------------- *)

\* ",".join(map(str, values))
RECURSIVE JoinComma(_)
JoinComma(values) ==
  IF values = <<>> THEN <<>>
  ELSE py_str(Head(values))
         \o (IF Tail(values) = <<>> THEN <<>> ELSE <<",">> \o JoinComma(Tail(values)))

\* d[key] on a dict held as a function
GetItem(d, key, sent) ==
  IF key \in DOMAIN d THEN Ok(d[key], sent) ELSE Raise(Exc("KeyError", key), sent)

TrophiesComponent_fetch(self, user, trophy_id, ids, achieved, stub) ==
  LET guard == token_required(user)
      with_id == IF trophy_id /= None
                   THEN Append(UserAuth(user),
                               <<"trophy_id", PStr(JoinComma(<<trophy_id>> \o ids))>>)
                   ELSE UserAuth(user)
      url_kwargs == IF achieved /= None
                      THEN Append(with_id, <<"achieved", achieved>>)
                      ELSE with_id
  IN  IF Raised(guard) THEN guard
      ELSE LET response == PostEndpoint(self, "TROPHIES", "FETCH", url_kwargs, stub)
           IN  IF Raised(response) THEN response
               ELSE LET trophies == GetItem(response.value.response, "trophies",
                                            response.sent)
                    IN  IF Raised(trophies) THEN trophies
                        ELSE IF trophy_id /= None /\ ids = <<>>
                          THEN IF trophies.value = <<>>
                                 THEN Raise(Exc("IndexError", "list index out of range"),
                                            response.sent)
                                 ELSE [Trophy_from_dict(trophies.value[1])
                                         EXCEPT !.sent = response.sent]
                          ELSE [Trophy_from_list(trophies.value)
                                  EXCEPT !.sent = response.sent]

TrophiesComponent_raise_error_no_context(error, trophy_id, user, sent) ==
  LET response == error.response
      message == response.message
  IN  IF StrEquals(message, "The user already has this trophy.")
        THEN Raise(TrophiesErrors("UserAlreadyHasTrophy",
                                  <<"User ">> \o py_str(user.username)
                                    \o <<" already has trophy ">> \o py_str(trophy_id),
                                  None, None, response), sent)
      ELSE IF StrEquals(message, "Incorrect trophy ID.")
        THEN Raise(TrophiesErrors("IncorrectTrophyID",
                                  <<"Invalid trophy ID: ">> \o py_str(trophy_id),
                                  None, None, response), sent)
      ELSE IF StrEquals(message, "The user does not have this trophy.")
        THEN Raise(TrophiesErrors("UserHasNotAchievedTrophy",
                                  <<"User ">> \o py_str(user.username)
                                    \o <<" does not have trophy ">> \o py_str(trophy_id),
                                  None, None, response), sent)
      ELSE Raise(error, sent)

TrophiesComponent_raise_error(error, trophy_id, user, sent) ==
  LET response == error.response
      message == response.message
  IN  IF StrEquals(message, "The user already has this trophy.")
        THEN Raise(TrophiesErrors("UserAlreadyHasTrophy",
                                  <<"User ">> \o py_str(user.username)
                                    \o <<" already has trophy ">> \o py_str(trophy_id),
                                  trophy_id, user, response), sent)
      ELSE IF StrEquals(message, "Incorrect trophy ID.")
        THEN Raise(TrophiesErrors("IncorrectTrophyID",
                                  <<"Invalid trophy ID: ">> \o py_str(trophy_id),
                                  trophy_id, user, response), sent)
      ELSE IF StrEquals(message, "The user does not have this trophy.")
        THEN Raise(TrophiesErrors("UserHasNotAchievedTrophy",
                                  <<"User ">> \o py_str(user.username)
                                    \o <<" does not have trophy ">> \o py_str(trophy_id),
                                  trophy_id, user, response), sent)
      ELSE Raise(error, sent)

TrophiesComponent_add_achieved(self, user, trophy_id, stub) ==
  LET guard == token_required(user)
  IN  IF Raised(guard) THEN guard
      ELSE LET response ==
                 PostEndpoint(self, "TROPHIES", "ADD_ACHIEVED",
                              Append(UserAuth(user), <<"trophy_id", trophy_id>>), stub)
           IN  IF Raised(response) /\ response.exc.type = "ApiError"
                 THEN TrophiesComponent_raise_error(response.exc, trophy_id, user,
                                                    response.sent)
                 ELSE response

TrophiesComponent_remove_achieved(self, user, trophy_id, stub) ==
  LET version == api_version_guard(self, "v1_2")
      guard == token_required(user)
  IN  IF Raised(version) THEN version
      ELSE IF Raised(guard) THEN guard
      ELSE LET response ==
                 PostEndpoint(self, "TROPHIES", "REMOVE_ACHIEVED",
                              Append(UserAuth(user), <<"trophy_id", trophy_id>>), stub)
           IN  IF Raised(response) /\ response.exc.type = "ApiError"
                 THEN TrophiesComponent_raise_error(response.exc, trophy_id, user,
                                                    response.sent)
                 ELSE response

(* ----------------- subcomponents/friends.py and time.py ---------------- *)

FriendsComponent_fetch(self, user, stub) ==
  LET version == api_version_guard(self, "v1_2")
      guard == token_required(user)
  IN  IF Raised(version) THEN version
      ELSE IF Raised(guard) THEN guard
      ELSE LET response ==
                 PostEndpoint(self, "FRIENDS", "FETCH",
                              <<<<"user_token", user.token>>,
                                <<"username", user.username>>>>, stub)
           IN  IF Raised(response) THEN response
               ELSE GetItem(response.value.response, "friends", response.sent)

TimeComponent_fetch(self, stub) ==
  LET version == api_version_guard(self, "v1_2")
  IN  IF Raised(version) THEN version
      ELSE LET response == PostEndpoint(self, "TIME", "FETCH", <<>>, stub)
           IN  IF Raised(response) THEN response
               ELSE [Time_from_dict(response.value.response)
                       EXCEPT !.sent = response.sent]

(* ----------------------- subcomponents/users.py ------------------------ *)

UserFields ==
  {"id", "type", "username", "avatar_url", "signed_up", "signed_up_timestamp",
   "last_logged_in", "last_logged_in_timestamp", "status", "developer_name",
   "developer_website", "developer_description"}

\* User(**data): the keywords must be the fields, no more and no less; then
\* __post_init__ makes the id an int.
User_init(data) ==
  IF DOMAIN data /= UserFields
    THEN Raise(Exc("TypeError", "User.__init__() got wrong keyword arguments"), <<>>)
    ELSE LET id == py_int(data.id)
         IN  IF Raised(id) THEN id
             ELSE Ok([k \in UserFields |-> IF k = "id" THEN PInt(id.value) ELSE data[k]],
                     <<>>)

\* [User(**user) for user in data]
User_list(data) ==
  IF \E i \in 1..Len(data) : Raised(User_init(data[i]))
    THEN User_init(
           data[CHOOSE i \in 1..Len(data) :
                  /\ Raised(User_init(data[i]))
                  /\ \A j \in 1..(i - 1) : ~Raised(User_init(data[j]))])
    ELSE Ok([i \in 1..Len(data) |-> User_init(data[i]).value], <<>>)

\* any(map(lambda obj: isinstance(obj, type), iterable)), for int and for str
instance_checker(type, iterable) ==
  \E i \in 1..Len(iterable) :
    IF type = "int" THEN IsInt(iterable[i]) ELSE IsStr(iterable[i])

\* "".join(values), for values that are all str
RECURSIVE JoinEmpty(_)
JoinEmpty(values) ==
  IF values = <<>> THEN <<>> ELSE Head(values).str \o JoinEmpty(Tail(values))

\* The first `def fetch` of the class body. The three @overload stubs named
\* fetch that follow it in the class body rebind the name, so this function
\* is not the method a caller reaches.
UsersComponent_fetch_shadowed(self, id_or_username, ids, stub) ==
  LET users == <<id_or_username>> \o ids
  IN  IF ids /= <<>> /\ instance_checker("int", users) /\ instance_checker("str", users)
        THEN Raise(Exc("TypeError", "the iterable should be an array of intagers only"),
                   <<>>)
      ELSE
        LET rp == PostEndpoint(
                    self, "USERS", "FETCH",
                    IF instance_checker("int", users)
                      THEN <<<<"user_id", PStr(JoinComma(users))>>>>
                      ELSE <<<<"username", PStr(JoinEmpty(users))>>>>,
                    stub)
        IN  IF Raised(rp) THEN rp
            ELSE LET found == GetItem(rp.value.response, "users", rp.sent)
                 IN  IF Raised(found) THEN found
                     ELSE IF Len(users) = 1
                       THEN IF found.value = <<>>
                              THEN Raise(Exc("IndexError", "list index out of range"),
                                         rp.sent)
                              ELSE [User_init(found.value[1]) EXCEPT !.sent = rp.sent]
                       ELSE [User_list(found.value) EXCEPT !.sent = rp.sent]

\* UsersComponent.fetch as the class ends up defining it: the last binding of
\* the name is an @overload stub, and typing.overload replaces the decorated
\* function by one that raises NotImplementedError whatever it is given.
UsersComponent_fetch(self, id_or_username, ids, stub) ==
  Raise(Exc("NotImplementedError", "You should not call an overloaded function."),
        <<>>)

UsersComponent_authenticate(self, username, token, stub) ==
  PostEndpoint(self, "USERS", "AUTH",
               <<<<"username", username>>, <<"user_token", token>>>>, stub)

(* --------------------- subcomponents/data_store.py --------------------- *)

\* key_name.capitalize()
Capitalize(key_name) ==
  CASE key_name = "key" -> "Key"
    [] key_name = "pattern" -> "Pattern"
    [] OTHER -> key_name

\* A checker that takes the key from the second argument whatever the first
DataStoreComponent_user_or_key_checker_no_dispatch(user_or_key, key_value, key_name) ==
  IF key_value = None
    THEN Raise(Exc("ValueError", Capitalize(key_name) \o " must be provided."), <<>>)
    ELSE Ok(<<<<key_name, key_value>>>>, <<>>)

DataStoreComponent_user_or_key_checker(user_or_key, key_value, key_name) ==
  IF IsUser(user_or_key)
    THEN IF "token" \notin DOMAIN user_or_key
           THEN Raise(AttributeError("User", "token"), <<>>)
         ELSE IF user_or_key.token = None
           THEN Raise(Exc("ValueError", "User must have a token set."), <<>>)
         ELSE IF key_value = None
           THEN Raise(Exc("ValueError", Capitalize(key_name) \o " must be provided."), <<>>)
         ELSE Ok(<<<<key_name, key_value>>>> \o UserAuth(user_or_key), <<>>)
    ELSE IF user_or_key = None
           THEN Raise(Exc("ValueError", Capitalize(key_name) \o " must be provided."), <<>>)
           ELSE Ok(<<<<key_name, user_or_key>>>>, <<>>)

DataStoreComponent_fetch(self, user_or_key, key, stub) ==
  LET params == DataStoreComponent_user_or_key_checker(user_or_key, key, "key")
  IN  IF Raised(params) THEN params
      ELSE PostEndpoint(self, "DATASTORE", "FETCH", params.value, stub)

DataStoreComponent_set(self, user_or_key, key_or_data, data, stub) ==
  LET params == DataStoreComponent_user_or_key_checker(user_or_key, key_or_data, "key")
  IN  IF Raised(params) THEN params
      ELSE LET response ==
                 PostEndpoint(self, "DATASTORE", "SET",
                              SetItem(params.value, "data",
                                      IF IsUser(user_or_key) THEN data ELSE key_or_data),
                              stub)
           IN  IF Raised(response) THEN response ELSE Ok(None, response.sent)

DataStoreComponent_update(self, user_or_key, operation_or_key, args, stub) ==
  LET params ==
        DataStoreComponent_user_or_key_checker(user_or_key, operation_or_key, "key")
  IN  IF Raised(params) THEN params
      ELSE IF IsUser(user_or_key)
        THEN IF Len(args) /= 2
               THEN Raise(Exc("ValueError", "wrong number of values to unpack"), <<>>)
               ELSE PostEndpoint(self, "DATASTORE", "UPDATE",
                                 SetItem(SetItem(params.value, "operation", args[1]),
                                         "value", args[2]),
                                 stub)
        ELSE IF Len(args) = 0
               THEN Raise(Exc("ValueError", "not enough values to unpack"), <<>>)
               ELSE PostEndpoint(self, "DATASTORE", "UPDATE",
                                 SetItem(SetItem(params.value, "operation",
                                                 operation_or_key),
                                         "value", args[1]),
                                 stub)

DataStoreComponent_remove(self, user_or_key, key, stub) ==
  LET params == DataStoreComponent_user_or_key_checker(user_or_key, key, "key")
  IN  IF Raised(params) THEN params
      ELSE PostEndpoint(self, "DATASTORE", "REMOVE", params.value, stub)

DataStoreComponent_get_keys(self, user_or_pattern, pattern, stub) ==
  IF user_or_pattern = NoArgument
    THEN Raise(Exc("TypeError",
                   "get_keys() missing 1 required positional argument: 'user_or_pattern'"),
               <<>>)
  ELSE
  LET checked ==
        DataStoreComponent_user_or_key_checker(user_or_pattern, pattern, "pattern")
      params == IF IsUser(user_or_pattern)
                  THEN SetItem(checked.value, "pattern", pattern)
                  ELSE checked.value
  IN  IF Raised(checked) THEN checked
      ELSE IF Get(params, "pattern") /= None
                /\ Str(self.api_version) \notin DOMAIN VERSIONS
        THEN Raise(Exc("KeyError", Str(self.api_version)), <<>>)
      ELSE IF Get(params, "pattern") /= None
                /\ VERSIONS[Str(self.api_version)] < VERSIONS["v1_2"]
        THEN Raise(Exc("ValueError", "API version mismatch"), <<>>)
      ELSE LET response == PostEndpoint(self, "DATASTORE", "GET_KEYS", params, stub)
           IN  IF Raised(response) THEN response
               ELSE Raise(AttributeError("Response", "keys"), response.sent)

(* ------------------------------- inputs -------------------------------- *)

\* Private keys: one that the ascii codec encodes and one it does not.
PrivateKeys == {<<"secret">>, <<"cl", "é">>}

VersionTokens == {<<"v1">>, <<"v1_1">>, <<"v1_2">>, <<"v2">>}

\* Query names are keyword names that are not formal parameters of the
\* functions they pass through (self, endpoint, url, encoding, base, version,
\* and game_id and format at construction): Python binds those to the
\* parameter, they never arrive as a query.
ConstructionArgs ==
  {[game |-> PInt(1), response_format |-> "json", kwargs |-> <<>>],
   [game |-> PInt(1), response_format |-> "keypair",
    kwargs |-> <<<<"b", PStr(<<"x">>)>>, <<"a", PInt(0)>>>>],
   [game |-> PStr(<<"my", " ", "game">>), response_format |-> "dump", kwargs |-> <<>>],
   [game |-> PStr(<<"my", " ", "game">>), response_format |-> "xml",
    kwargs |-> <<<<"b", PStr(<<"x">>)>>, <<"a", PInt(0)>>>>],
   [game |-> PInt(1), response_format |-> "yaml", kwargs |-> <<>>],
   [game |-> PInt(1), response_format |-> "JSON",
    kwargs |-> <<<<"b", PStr(<<"x">>)>>, <<"a", PInt(0)>>>>]}

CallQueries ==
  {<<>>,
   <<<<"user_id", PStr(<<"5">>)>>>>,
   <<<<"c", PStr(<<"x", " ", "y", "&", "z">>)>>, <<"a", PInt(1)>>,
     <<"game_id", PInt(7)>>>>,
   <<<<"format", PStr(<<"keypair">>)>>, <<"b", None>>, <<"d", PBool(TRUE)>>>>,
   <<<<"username", PStr(<<"jos", "é">>)>>>>}

EndpointPaths == {<<>>, Endpoints.USERS.FETCH, <<"users">>}

\* A User as the User model builds it declares no token; the application
\* assigns one (None, the empty string, or a token) afterwards.
UserModel == [id |-> PInt(1), username |-> PStr(<<"n">>)]

Users ==
  {UserModel,
   [token |-> None] @@ UserModel,
   [token |-> PStr(<<>>)] @@ UserModel,
   [token |-> PStr(<<"tok">>)] @@ UserModel}

NoPayload == <<>>

TrophyDict ==
  [id |-> PStr(<<"7">>), title |-> PStr(<<"t">>), description |-> PStr(<<"d">>),
   difficulty |-> PStr(<<"Gold">>), image_url |-> PStr(<<"u">>),
   achieved |-> PBool(FALSE)]

UserDict ==
  [k \in UserFields |->
     CASE k = "id" -> PStr(<<"1">>)
       [] k = "username" -> PStr(<<"n">>)
       [] k \in {"signed_up_timestamp", "last_logged_in_timestamp"} -> PInt(0)
       [] OTHER -> PStr(<<>>)]

Payloads ==
  {NoPayload,
   [trophies |-> <<TrophyDict>>, friends |-> <<[friend_id |-> PStr(<<"12345">>)]>>,
    users |-> <<UserDict>>],
   [timestamp |-> PInt(0), timezone |-> PStr(<<"UTC">>), year |-> PInt(2024),
    month |-> PInt(1), day |-> PInt(2), hour |-> PInt(3), minute |-> PInt(4),
    second |-> PInt(5)]}

Messages ==
  {None,
   PStr(<<"The user already has this trophy.">>),
   PStr(<<"Incorrect trophy ID.">>),
   PStr(<<"The user does not have this trophy.">>),
   PStr(<<"Unknown fatal error occurred.">>)}

\* What evaluate may return under its contract: success and response, and a
\* message that may be absent; keys that Response does not declare may come
\* along.
DecodedResults ==
  {[success |-> TRUE, response |-> p] : p \in Payloads}
    \cup {[success |-> TRUE, response |-> NoPayload,
           message |-> PStr(<<"ok">>), keys |-> <<>>]}
    \cup {[success |-> FALSE, response |-> NoPayload]}
    \cup {[success |-> FALSE, response |-> NoPayload, message |-> m] : m \in Messages}

Stubs ==
  {[kind |-> "post_raises"], [kind |-> "evaluate_raises"]}
    \cup {[kind |-> "decoded", evaled |-> d] : d \in DecodedResults}

\* The transport behaviours tried on the operations that treat every remote
\* failure message alike.
BasicStubs ==
  {stub \in Stubs :
     stub.kind = "decoded" /\ "message" \in DOMAIN stub.evaled
       => stub.evaled.message
            \in {None, PStr(<<"ok">>), PStr(<<"Unknown fatal error occurred.">>)}}

FetchArgs ==
  {[trophy_id |-> None, ids |-> <<>>, achieved |-> None],
   [trophy_id |-> PInt(3), ids |-> <<>>, achieved |-> None],
   [trophy_id |-> PInt(3), ids |-> <<PInt(12)>>, achieved |-> PBool(TRUE)]}

TrophyIds == {PInt(3), PInt(12)}

\* users.fetch by one id, by one username, by ids, by a mix, by usernames
UsersFetchArgs ==
  {[id_or_username |-> PInt(1), ids |-> <<>>],
   [id_or_username |-> PStr(<<"n">>), ids |-> <<>>],
   [id_or_username |-> PInt(1), ids |-> <<PInt(2)>>],
   [id_or_username |-> PStr(<<"n">>), ids |-> <<PInt(2)>>],
   [id_or_username |-> PStr(<<"n">>), ids |-> <<PStr(<<"m">>)>>]}

DataStoreTargets == Users \cup {PStr(<<"k">>), None}

\* Names tried on the registry: every category and operation it has, a
\* category it does not have, and in a category an operation nothing has, an
\* operation of another category and an attribute of the wrapper object.
CategoryNames == DOMAIN Endpoints \cup {"NOPE"}

RegistryNames ==
  UNION {{<<c, o>> : o \in DOMAIN Endpoints[c]} : c \in DOMAIN Endpoints}

NamePairs ==
  RegistryNames
    \cup {<<"NOPE", "FETCH">>, <<"USERS", "NOPE">>, <<"USERS", "OPEN">>,
          <<"TIME", "formatter">>}

WrapperQueries ==
  {queries \in CallQueries : Keys(queries) \cap {"user_id", "username"} = {}}

(* ------------------------------- actions ------------------------------- *)

Init ==
  /\ requester = None
  /\ transport_calls = 0
  /\ last = [op |-> "init"]

Construct(key, game, response_format, version, kwargs) ==
  /\ last.op = "init"
  /\ LET res == RequesterAbstract_init(key, game, response_format,
                                       BASE_URL, version, kwargs)
     IN  /\ requester' = IF Raised(res) THEN None ELSE res.value
         /\ last' = [op |-> "construct",
                     args |-> [key |-> key, game |-> game,
                               response_format |-> response_format,
                               version |-> version, kwargs |-> kwargs],
                     res |-> res]
  /\ UNCHANGED transport_calls

\* Requester(key, game=..., format=..., **kwargs), the version left to its
\* default
ConstructDefaultVersion(key, game, response_format, kwargs) ==
  /\ last.op = "init"
  /\ LET res == RequesterAbstract_init(key, game, response_format,
                                       BASE_URL, API_VERSION, kwargs)
     IN  /\ requester' = IF Raised(res) THEN None ELSE res.value
         /\ last' = [op |-> "construct",
                     args |-> [key |-> key, game |-> game,
                               response_format |-> response_format,
                               version |-> API_VERSION, kwargs |-> kwargs,
                               omitted |-> {"version"}],
                     res |-> res]
  /\ UNCHANGED transport_calls

\* The call-time keys whose later appearance is watched for
TrackedKeys == {"c"}

\* The operations that take call-time parameters to format_queries
QueryOps ==
  {"format", "Formatter.format", "format_queries", "endpoint", "Formatter.endpoint"}

\* An operation on the constructed Requester, called when no call is under
\* way: the Requester keeps the fields the code leaves alone and the
\* transport records the URLs it was handed. `last` holds the call and its
\* outcome until the caller takes it (Return); for a URL builder it also
\* holds the tracked keys that the call returned just before had passed.
Call(op, args, res) ==
  /\ requester /= None
  /\ last.op \in {"construct", "idle"}
  /\ transport_calls < MaxTransportCalls
  /\ last' = [op |-> op, args |-> args, res |-> res,
              earlier |-> IF op \in QueryOps /\ last.op = "idle"
                            THEN last.earlier ELSE {}]
  /\ transport_calls' = transport_calls + Len(res.sent)
  /\ requester'
       = [requester EXCEPT
            !.queries = FormatterAbstract_queries_after(
                          requester,
                          IF op \in QueryOps THEN args.queries ELSE <<>>)]

Format(endpoint, queries) ==
  Call("format", [endpoint |-> endpoint, queries |-> queries],
       RequesterAbstract_format(requester, endpoint, queries))

FormatterFormat(endpoint, queries) ==
  Call("Formatter.format", [endpoint |-> endpoint, queries |-> queries],
       Ok(FormatterAbstract_format(requester, endpoint, queries), <<>>))

FormatQueries(url, queries) ==
  Call("format_queries", [url |-> url, queries |-> queries],
       Ok(FormatterAbstract_format_queries(requester, url, "utf-8", queries), <<>>))

Post(url, stub) ==
  Call("post", [url |-> url, stub |-> stub],
       RequesterAbstract_post(requester, url, stub))

SessionsOpen(user, stub) ==
  Call("sessions.open", [user |-> user, stub |-> stub],
       SessionsComponent_open(requester, user, stub))

SessionsPing(user, stub) ==
  Call("sessions.ping", [user |-> user, stub |-> stub],
       SessionsComponent_ping(requester, user, stub))

SessionsCheck(user, stub) ==
  Call("sessions.check", [user |-> user, stub |-> stub],
       SessionsComponent_check(requester, user, stub))

SessionsClose(user, stub) ==
  Call("sessions.close", [user |-> user, stub |-> stub],
       SessionsComponent_close(requester, user, stub))

TrophiesFetch(user, trophy_id, ids, achieved, stub) ==
  Call("trophies.fetch",
       [user |-> user, trophy_id |-> trophy_id, ids |-> ids, achieved |-> achieved,
        stub |-> stub],
       TrophiesComponent_fetch(requester, user, trophy_id, ids, achieved, stub))

TrophiesAddAchieved(user, trophy_id, stub) ==
  Call("trophies.add_achieved", [user |-> user, trophy_id |-> trophy_id, stub |-> stub],
       TrophiesComponent_add_achieved(requester, user, trophy_id, stub))

TrophiesRemoveAchieved(user, trophy_id, stub) ==
  Call("trophies.remove_achieved",
       [user |-> user, trophy_id |-> trophy_id, stub |-> stub],
       TrophiesComponent_remove_achieved(requester, user, trophy_id, stub))

FriendsFetch(user, stub) ==
  Call("friends.fetch", [user |-> user, stub |-> stub],
       FriendsComponent_fetch(requester, user, stub))

TimeFetch(stub) ==
  Call("time.fetch", [stub |-> stub], TimeComponent_fetch(requester, stub))

UsersFetch(id_or_username, ids, stub) ==
  Call("users.fetch", [id_or_username |-> id_or_username, ids |-> ids, stub |-> stub],
       UsersComponent_fetch(requester, id_or_username, ids, stub))

UsersAuthenticate(username, token, stub) ==
  Call("users.authenticate", [username |-> username, token |-> token, stub |-> stub],
       UsersComponent_authenticate(requester, username, token, stub))

DataStoreFetch(user_or_key, key, stub) ==
  Call("data_store.fetch", [user |-> user_or_key, key |-> key, stub |-> stub],
       DataStoreComponent_fetch(requester, user_or_key, key, stub))

DataStoreSet(user_or_key, key_or_data, data, stub) ==
  Call("data_store.set",
       [user |-> user_or_key, key |-> key_or_data, data |-> data, stub |-> stub],
       DataStoreComponent_set(requester, user_or_key, key_or_data, data, stub))

DataStoreUpdate(user_or_key, operation_or_key, args, stub) ==
  Call("data_store.update",
       [user |-> user_or_key, key |-> operation_or_key, rest |-> args, stub |-> stub],
       DataStoreComponent_update(requester, user_or_key, operation_or_key, args, stub))

DataStoreRemove(user_or_key, key, stub) ==
  Call("data_store.remove", [user |-> user_or_key, key |-> key, stub |-> stub],
       DataStoreComponent_remove(requester, user_or_key, key, stub))

DataStoreGetKeys(user_or_pattern, pattern, stub) ==
  Call("data_store.get_keys",
       [user |-> user_or_pattern, pattern |-> pattern, stub |-> stub],
       DataStoreComponent_get_keys(requester, user_or_pattern, pattern, stub))

\* A plain Formatter holding the base URL, the version and the defaults of
\* the Requester
PlainFormatter ==
  FormatterAbstract_init(requester.base_url, requester.api_version, requester.queries)

CategoryGetattr(category) ==
  Call("getattr", [category |-> category], Formatter_getattr(requester, category))

EndpointGetattr(category, operation) ==
  Call("getattr", [category |-> category, operation |-> operation],
       EndpointAccess(requester, category, operation))

EndpointGetitem(category, operation) ==
  Call("getitem", [category |-> category, operation |-> operation],
       EndpointItem(requester, category, operation))

EndpointWrapperCall(category, operation, queries) ==
  Call("endpoint", [category |-> category, operation |-> operation, queries |-> queries],
       EndpointCall(requester, category, operation, queries))

FormatterEndpointCall(category, operation, queries) ==
  Call("Formatter.endpoint",
       [category |-> category, operation |-> operation, queries |-> queries],
       EndpointCall(PlainFormatter, category, operation, queries))

RegistryGetattr(category, operation) ==
  Call("Endpoints.getattr", [category |-> category, operation |-> operation],
       Endpoints_attribute(category, operation))

RegistryGetitem(category, operation) ==
  Call("Endpoints.getitem", [category |-> category, operation |-> operation],
       Endpoints_item(category, operation))

Return ==
  /\ requester /= None
  /\ last.op \notin {"construct", "idle"}
  /\ last' = [op |-> "idle",
              earlier |-> IF last.op \in QueryOps
                            THEN Keys(last.args.queries) \cap TrackedKeys ELSE {}]
  /\ UNCHANGED <<requester, transport_calls>>

Next ==
  \/ Return
  \/ \E key \in PrivateKeys, c \in ConstructionArgs :
       ConstructDefaultVersion(key, c.game, c.response_format, c.kwargs)
  \/ \E key \in PrivateKeys, version \in VersionTokens, c \in ConstructionArgs :
       Construct(key, c.game, c.response_format, version, c.kwargs)
  \/ \E endpoint \in EndpointPaths, queries \in CallQueries :
       Format(endpoint, queries)
  \/ \E endpoint \in EndpointPaths, queries \in CallQueries :
       FormatterFormat(endpoint, queries)
  \/ \E url \in {<<>>, <<"http://localhost/x">>}, queries \in CallQueries :
       FormatQueries(url, queries)
  \/ \E url \in {<<"http://localhost/x">>}, stub \in Stubs : Post(url, stub)
  \/ \E user \in Users, stub \in BasicStubs : SessionsOpen(user, stub)
  \/ \E user \in Users, stub \in BasicStubs : SessionsPing(user, stub)
  \/ \E user \in Users, stub \in BasicStubs : SessionsCheck(user, stub)
  \/ \E user \in Users, stub \in BasicStubs : SessionsClose(user, stub)
  \/ \E user \in Users, a \in FetchArgs, stub \in BasicStubs :
       TrophiesFetch(user, a.trophy_id, a.ids, a.achieved, stub)
  \/ \E user \in Users, trophy_id \in TrophyIds, stub \in Stubs :
       TrophiesAddAchieved(user, trophy_id, stub)
  \/ \E user \in Users, trophy_id \in TrophyIds, stub \in Stubs :
       TrophiesRemoveAchieved(user, trophy_id, stub)
  \/ \E user \in Users, stub \in BasicStubs : FriendsFetch(user, stub)
  \/ \E stub \in BasicStubs : TimeFetch(stub)
  \/ \E a \in UsersFetchArgs, stub \in BasicStubs :
       UsersFetch(a.id_or_username, a.ids, stub)
  \/ \E token \in {PStr(<<"tok">>), PStr(<<>>)}, stub \in BasicStubs :
       UsersAuthenticate(PStr(<<"n">>), token, stub)
  \/ \E target \in DataStoreTargets, key \in {None, PStr(<<"k2">>)},
        stub \in BasicStubs :
       DataStoreFetch(target, key, stub)
  \/ \E target \in DataStoreTargets, key_or_data \in {None, PStr(<<"k2">>)},
        stub \in BasicStubs :
       DataStoreSet(target, key_or_data, PStr(<<"d">>), stub)
  \/ \E target \in DataStoreTargets,
        args \in {<<>>, <<PInt(1)>>, <<PStr(<<"add">>), PInt(1)>>},
        stub \in BasicStubs :
       \E operation_or_key \in {None, PStr(<<"k2">>)} :
         DataStoreUpdate(target, operation_or_key, args, stub)
  \/ \E target \in DataStoreTargets, key \in {None, PStr(<<"k2">>)},
        stub \in BasicStubs :
       DataStoreRemove(target, key, stub)
  \/ \E target \in DataStoreTargets, pattern \in {None, PStr(<<"p", "*">>)},
        stub \in BasicStubs :
       DataStoreGetKeys(target, pattern, stub)
  \/ \E stub \in BasicStubs : DataStoreGetKeys(NoArgument, None, stub)
  \/ \E category \in CategoryNames : CategoryGetattr(category)
  \/ \E name \in NamePairs : EndpointGetattr(name[1], name[2])
  \/ \E name \in NamePairs : EndpointGetitem(name[1], name[2])
  \/ \E name \in NamePairs, queries \in WrapperQueries :
       EndpointWrapperCall(name[1], name[2], queries)
  \/ \E name \in NamePairs, queries \in WrapperQueries :
       FormatterEndpointCall(name[1], name[2], queries)
  \/ \E name \in NamePairs : RegistryGetattr(name[1], name[2])
  \/ \E name \in NamePairs : RegistryGetitem(name[1], name[2])

Spec == Init /\ [][Next]_vars

(* ------------------------- reading a query string ---------------------- *)

\* The positions in the text t at which the pair of the query name a starts:
\* a, then "=", at the start of the text or right after "?" or "&".
PairStarts(t, a) ==
  {i \in 1..(Len(t) - 1) :
     /\ t[i] = a
     /\ t[i + 1] = "="
     /\ (i = 1 \/ t[i - 1] \in {"?", "&"})}

\* The value of the pair that starts at position i: what follows its "=" up
\* to the next "&" or the end of the text.
PairValue(t, i) ==
  LET stops == {j \in (i + 2)..Len(t) : t[j] = "&"}
      stop == IF stops = {} THEN Len(t) + 1
              ELSE CHOOSE j \in stops : \A other \in stops : j <= other
  IN  SubSeq(t, i + 2, stop - 1)

\* key=value pairs joined by "&", each side percent-encoded
RECURSIVE JoinPairs(_)
JoinPairs(pairs) ==
  IF pairs = <<>> THEN ""
  ELSE Str(quote_plus(<<Head(pairs)[1]>>, "utf-8")) \o "="
         \o Str(quote_plus(py_str(Head(pairs)[2]), "utf-8"))
         \o (IF Tail(pairs) = <<>> THEN "" ELSE "&" \o JoinPairs(Tail(pairs)))

\* The merge order: the defaults in their order, each with the call-time
\* value if the call gives one, then the call-time keys that are new.
MergeOrder(defaults, call) ==
  [i \in 1..Len(defaults) |->
     <<defaults[i][1],
       IF defaults[i][1] \in Keys(call) THEN Get(call, defaults[i][1])
       ELSE defaults[i][2]>>]
    \o SelectSeq(call, LAMBDA p : p[1] \notin Keys(defaults))

FormatOps == {"format", "Formatter.format", "format_queries"}

\* The names of the key=value pairs of a URL
PairKeys(t) ==
  {t[i] : i \in {j \in 1..(Len(t) - 1) :
                   t[j + 1] = "=" /\ (j = 1 \/ t[j - 1] \in {"?", "&"})}}

(* ----------------------------- properties ------------------------------ *)

\* C1: Requester.format(p, **m) returns U + "&signature=" + D, where U is the
\* unsigned URL Formatter.format(p, **m) builds for the same defaults and D
\* is the digest of U followed by the private key; the text before
\* "&signature=" is the string that was digested. (A key the ascii codec
\* cannot encode has no digest: generate_signature raises, and so does
\* format.)
C1_SignedUrlIsUnsignedPlusDigest ==
  last.op = "format" =>
    LET U == FormatterAbstract_format(requester, last.args.endpoint, last.args.queries)
        k == requester.private_key
    IN  IF IsAscii(U \o k)
          THEN /\ last.res.kind = "ok"
               /\ Str(last.res.value)
                    = Str(U) \o "&signature=" \o md5_hexdigest(Str(U) \o Str(k))
               /\ LET n == Len(last.res.value)
                      before == SubSeq(last.res.value, 1, n - 4)
                  IN  /\ SubSeq(last.res.value, n - 3, n - 1) = <<"&", "signature", "=">>
                      /\ last.res.value[n] = md5_hexdigest(Str(before) \o Str(k))
          ELSE /\ last.res.kind = "raise"
               /\ last.res.exc.type = "UnicodeEncodeError"

C1_Witness ==
  /\ last.op = "format"
  /\ last.res.kind = "ok"
  /\ Str(last.res.value)
       = "https://api.gamejolt.com/api/game/v1_2/users?game_id=1&format=json&user_id=5"
           \o "&signature="
           \o "md5[https://api.gamejolt.com/api/game/v1_2/users?game_id=1&format=json&user_id=5secret]"

\* C2: a key that is both an instance-level default and a call-time parameter
\* of format / format_queries appears exactly once in the produced query
\* string, with the call-time value.
C2_CallTimeValueWins ==
  (last.op \in FormatOps /\ last.res.kind = "ok") =>
    \A a \in Keys(requester.queries) \cap Keys(last.args.queries) :
      /\ Cardinality(PairStarts(last.res.value, a)) = 1
      /\ \A i \in PairStarts(last.res.value, a) :
           Str(PairValue(last.res.value, i))
             = Str(quote_plus(py_str(Get(last.args.queries, a)), "utf-8"))

C2_Witness ==
  /\ last.op = "format"
  /\ last.res.kind = "ok"
  /\ {"a", "game_id"} \subseteq Keys(requester.queries) \cap Keys(last.args.queries)
  /\ Get(requester.queries, "a") = PInt(0)
  /\ Get(last.args.queries, "a") = PInt(1)
  /\ \E i \in PairStarts(last.res.value, "a") : PairValue(last.res.value, i) = <<"1">>

\* C3: the unsigned URL is base_url + api_version + endpoint + "?" + the
\* key=value pairs joined by "&", no slash added or removed, the pairs in
\* merge order: game_id, format, the other construction-time defaults in
\* the order given, then the call-time keys that are new in the order given.
C3_UnsignedUrlInMergeOrder ==
  /\ (last.op = "construct" /\ last.res.kind = "ok") =>
       requester.queries
         = <<<<"game_id", last.args.game>>,
             <<"format", PStr(<<last.args.response_format>>)>>>> \o last.args.kwargs
  /\ last.op = "Formatter.format" =>
       /\ last.res.kind = "ok"
       /\ Str(last.res.value)
            = Str(requester.base_url) \o Str(requester.api_version)
                \o Str(last.args.endpoint) \o "?"
                \o JoinPairs(MergeOrder(requester.queries, last.args.queries))

C3_Witness ==
  /\ last.op = "Formatter.format"
  /\ last.args.endpoint = <<"users">>
  /\ Str(last.res.value)
       = "https://api.gamejolt.com/api/game/v1_1users"
           \o "?game_id=7&format=keypair&b=x&a=1&c=x+y%26z"

\* C4: construction with a response format outside {json, keypair, dump, xml}
\* raises ValueError and yields no Requester; with a format of the set it
\* succeeds, and the defaults hold game_id = the game and format = the format.
C4_ResponseFormatValidated ==
  last.op = "construct" =>
    IF last.args.response_format \in {"json", "keypair", "dump", "xml"}
      THEN /\ last.res.kind = "ok"
           /\ requester /= None
           /\ "game_id" \in Keys(requester.queries)
           /\ Get(requester.queries, "game_id") = last.args.game
           /\ "format" \in Keys(requester.queries)
           /\ StrEquals(Get(requester.queries, "format"), last.args.response_format)
      ELSE /\ last.res.kind = "raise"
           /\ last.res.exc.type = "ValueError"
           /\ requester = None

C4_Witness ==
  /\ last.op = "construct"
  /\ last.args.response_format = "yaml"
  /\ last.res.kind = "raise"
  /\ requester = None

\* The Response that from_dict builds from a decoded result of the contract
ExpectedResponse(evaled) ==
  [success |-> evaled.success,
   response |-> evaled.response,
   message |-> IF "message" \in DOMAIN evaled THEN evaled.message ELSE None]

DecodedFailure(stub) == stub.kind = "decoded" /\ ~stub.evaled.success

\* C5: for every decoded result of the decode contract with success false
\* (the message may be absent), post raises ApiError, and the error carries
\* the Response with success false, the decoded payload and the decoded
\* message; no other kind of error is raised.
C5_FailureRaisesApiError ==
  (last.op = "post" /\ DecodedFailure(last.args.stub)) =>
    /\ last.res.kind = "raise"
    /\ last.res.exc.type = "ApiError"
    /\ last.res.exc.response = ExpectedResponse(last.args.stub.evaled)
    /\ last.res.exc.response.success = FALSE
    /\ last.res.exc.message = ExpectedResponse(last.args.stub.evaled).message

\* C6: for every decoded result with success true, post raises nothing and
\* returns a Response whose success, response and message equal those of the
\* decoded result, message being None when the decoded result has none.
C6_SuccessReturnsResponse ==
  (last.op = "post" /\ last.args.stub.kind = "decoded"
     /\ last.args.stub.evaled.success) =>
    /\ last.res.kind = "ok"
    /\ last.res.value.success = TRUE
    /\ last.res.value.response = last.args.stub.evaled.response
    /\ last.res.value.message
         = (IF "message" \in DOMAIN last.args.stub.evaled
              THEN last.args.stub.evaled.message ELSE None)
    /\ DOMAIN last.res.value = {"success", "response", "message"}

C6_Witness ==
  /\ last.op = "post"
  /\ last.res.kind = "ok"
  /\ "keys" \in DOMAIN last.args.stub.evaled
  /\ last.res.value
       = [success |-> TRUE, response |-> NoPayload, message |-> PStr(<<"ok">>)]

VersionGatedOps ==
  {"sessions.check", "trophies.remove_achieved", "friends.fetch", "time.fetch"}

\* data_store.get_keys called with a non-null pattern, in either calling form
GetKeysWithPattern ==
  /\ last.op = "data_store.get_keys"
  /\ IF IsUser(last.args.user) THEN last.args.pattern /= None
     ELSE IsStr(last.args.user)

OlderThanV1_2 ==
  /\ Str(requester.api_version) \in DOMAIN VERSIONS
  /\ VERSIONS[Str(requester.api_version)] < VERSIONS["v1_2"]

\* C7: with v1 < v1_1 < v1_2, every version-gated operation (sessions.check,
\* trophies.remove_achieved, friends.fetch, time.fetch, data_store.get_keys
\* with a non-null pattern) fails with ValueError when the configured version
\* is older than v1_2, the transport being invoked zero times; at v1_2 the
\* gate does not reject.
C7_VersionGate ==
  (/\ last.op \in VersionGatedOps \/ GetKeysWithPattern
   /\ Str(requester.api_version) \in DOMAIN VERSIONS) =>
    IF OlderThanV1_2
      THEN /\ last.res.kind = "raise"
           /\ last.res.exc.type = "ValueError"
           /\ last.res.sent = <<>>
      ELSE ~(/\ last.res.kind = "raise"
             /\ last.res.exc.type = "ValueError"
             /\ last.res.exc.msg = "API version mismatch")

TokenOps ==
  {"sessions.open", "sessions.ping", "sessions.check", "sessions.close",
   "trophies.fetch", "trophies.add_achieved", "trophies.remove_achieved",
   "friends.fetch",
   "data_store.fetch", "data_store.set", "data_store.update", "data_store.remove",
   "data_store.get_keys"}

\* A token-required operation called with a user (for the data store: with a
\* user as first argument)
TokenOpOnUser == last.op \in TokenOps /\ IsUser(last.args.user)

PassesVersionGate ==
  last.op \in VersionGatedOps =>
    Str(requester.api_version) \in DOMAIN VERSIONS /\ ~OlderThanV1_2

\* C8: every operation that takes a user and needs the session token, called
\* with a user whose token is None on a Requester whose version passes the
\* gate, fails with ValueError and invokes the transport zero times.
C8_TokenNoneIsRejected ==
  (/\ TokenOpOnUser
   /\ "token" \in DOMAIN last.args.user
   /\ last.args.user.token = None
   /\ PassesVersionGate) =>
    /\ last.res.kind = "raise"
    /\ last.res.exc.type = "ValueError"
    /\ last.res.sent = <<>>

C8_Witness ==
  /\ last.op = "friends.fetch"
  /\ ~OlderThanV1_2
  /\ "token" \in DOMAIN last.args.user
  /\ last.args.user.token = None
  /\ last.args.stub.kind = "decoded"
  /\ last.res.kind = "raise"
  /\ last.res.exc = Exc("ValueError", "A user token is required.")
  /\ last.res.sent = <<>>
  /\ transport_calls = 0

\* C9: a token-required operation called with a user whose token is absent
\* (never assigned) or empty (the empty string) fails with a usage error
\* before any transport call is issued.
C9_AbsentOrEmptyTokenIsRejected ==
  (/\ TokenOpOnUser
   /\ \/ "token" \notin DOMAIN last.args.user
      \/ last.args.user.token = PStr(<<>>)) =>
    /\ last.res.kind = "raise"
    /\ last.res.exc.type = "ValueError"
    /\ last.res.sent = <<>>

TrophyErrorOf(message) ==
  CASE StrEquals(message, "The user already has this trophy.") -> "UserAlreadyHasTrophy"
    [] StrEquals(message, "Incorrect trophy ID.") -> "IncorrectTrophyID"
    [] StrEquals(message, "The user does not have this trophy.")
         -> "UserHasNotAchievedTrophy"
    [] OTHER -> "ApiError"

\* C10: when the transport reports a failure whose message is "The user
\* already has this trophy.", "Incorrect trophy ID." or "The user does not
\* have this trophy.", trophies.add_achieved and trophies.remove_achieved
\* raise UserAlreadyHasTrophy, IncorrectTrophyID or UserHasNotAchievedTrophy,
\* and the error carries the trophy id and the user passed to the operation
\* and the failing Response.
C10_TrophyErrorCarriesContext ==
  (/\ last.op \in {"trophies.add_achieved", "trophies.remove_achieved"}
   /\ last.res.sent /= <<>>
   /\ DecodedFailure(last.args.stub)
   /\ "message" \in DOMAIN last.args.stub.evaled
   /\ TrophyErrorOf(last.args.stub.evaled.message) /= "ApiError") =>
    /\ last.res.kind = "raise"
    /\ last.res.exc.type = TrophyErrorOf(last.args.stub.evaled.message)
    /\ last.res.exc.trophy_id = last.args.trophy_id
    /\ last.res.exc.user = last.args.user
    /\ last.res.exc.response = ExpectedResponse(last.args.stub.evaled)

C10_Witness ==
  /\ last.op = "trophies.remove_achieved"
  /\ last.res.kind = "raise"
  /\ last.res.exc.type = "UserAlreadyHasTrophy"
  /\ last.res.exc.trophy_id = PInt(3)
  /\ last.res.exc.user = [token |-> PStr(<<"tok">>)] @@ UserModel
  /\ last.res.exc.response.message = PStr(<<"The user already has this trophy.">>)
  /\ Len(last.res.sent) = 1

\* A user that holds a session token
HoldsToken(user) ==
  /\ IsUser(user)
  /\ "token" \in DOMAIN user
  /\ IsStr(user.token)
  /\ user.token.str /= <<>>

RemoteSuccess(stub) == stub.kind = "decoded" /\ stub.evaled.success

\* The one URL handed to the transport carries the pair key=value
SentCarries(sent, key, value) ==
  /\ Len(sent) = 1
  /\ \E i \in PairStarts(sent[1], key) :
       Str(PairValue(sent[1], i)) = Str(quote_plus(py_str(value), "utf-8"))

SentTo(sent, endpoint) ==
  /\ Len(sent) = 1
  /\ Len(sent[1]) >= 3
  /\ sent[1][3] = Str(endpoint)

\* C11: at v1_2, data_store.get_keys with a pattern (globally, the pattern
\* as first argument, or for a user holding a token) succeeds when the remote
\* reports success: one GET_KEYS request whose query carries the pattern,
\* nothing raised, the keys of the response returned.
C11_GetKeysWithPatternReturnsKeys ==
  (/\ last.op = "data_store.get_keys"
   /\ Str(requester.api_version) = "v1_2"
   /\ IsAscii(requester.private_key)
   /\ \/ IsStr(last.args.user)
      \/ HoldsToken(last.args.user) /\ IsStr(last.args.pattern)
   /\ RemoteSuccess(last.args.stub)
   /\ "keys" \in DOMAIN last.args.stub.evaled) =>
    /\ SentTo(last.res.sent, Endpoints.DATASTORE.GET_KEYS)
    /\ SentCarries(last.res.sent, "pattern",
                   IF IsUser(last.args.user) THEN last.args.pattern ELSE last.args.user)
    /\ last.res.kind = "ok"
    /\ last.res.value = last.args.stub.evaled.keys

\* C12: data_store.get_keys without a pattern, with no argument or with only
\* a user holding a token, is accepted on every API version: no usage error,
\* one GET_KEYS request (with username and user_token in the user case), the
\* key list returned.
C12_GetKeysWithoutPatternAccepted ==
  (/\ last.op = "data_store.get_keys"
   /\ Str(requester.api_version) \in DOMAIN VERSIONS
   /\ IsAscii(requester.private_key)
   /\ \/ last.args.user = NoArgument
      \/ HoldsToken(last.args.user) /\ last.args.pattern = None
   /\ RemoteSuccess(last.args.stub)
   /\ "keys" \in DOMAIN last.args.stub.evaled) =>
    /\ last.res.kind = "ok"
    /\ SentTo(last.res.sent, Endpoints.DATASTORE.GET_KEYS)
    /\ IsUser(last.args.user) =>
         /\ SentCarries(last.res.sent, "username", last.args.user.username)
         /\ SentCarries(last.res.sent, "user_token", last.args.user.token)
    /\ last.res.value = last.args.stub.evaled.keys

NamesAnEntry == <<last.args.category, last.args.operation>> \in RegistryNames

\* C13: for every category C and operation O of the registry and every
\* keyword mapping m, requester.C.O(**m) returns what
\* requester.format(Endpoints[C][O], **m) returns, the signed URL; on a plain
\* Formatter it returns what formatter.format(Endpoints[C][O], **m) returns.
C13_WrapperCallIsFormat ==
  /\ (last.op = "endpoint" /\ NamesAnEntry) =>
       /\ last.res
            = RequesterAbstract_format(
                requester, Endpoints[last.args.category][last.args.operation],
                last.args.queries)
       /\ IsAscii(requester.private_key) =>
            /\ last.res.kind = "ok"
            /\ PairStarts(last.res.value, "signature") = {Len(last.res.value) - 2}
  /\ (last.op = "Formatter.endpoint" /\ NamesAnEntry) =>
       /\ last.res.kind = "ok"
       /\ last.res.value
            = FormatterAbstract_format(
                PlainFormatter, Endpoints[last.args.category][last.args.operation],
                last.args.queries)
       /\ PairStarts(last.res.value, "signature") = {}

C13_Witness ==
  /\ last.op = "endpoint"
  /\ last.args.category = "SESSIONS"
  /\ last.args.operation = "OPEN"
  /\ last.res.kind = "ok"
  /\ Str(last.res.value)
       = "https://api.gamejolt.com/api/game/v1_2/sessions/open"
           \o "?game_id=7&format=json&c=x+y%26z&a=1&signature="
           \o "md5[https://api.gamejolt.com/api/game/v1_2/sessions/open"
           \o "?game_id=7&format=json&c=x+y%26z&a=1secret]"

\* The names an EndpointWrapper has as an object: its two slots
WrapperAttributes == {"formatter", "endpoints"}

\* C14: reading a category name that the registry does not have on a
\* Formatter/Requester, or an operation name that the category does not have
\* on the category wrapper, raises AttributeError at the read, before any
\* call of the result, and no URL is built.
C14_UnknownNameFailsAtAccess ==
  last.op \in {"getattr", "endpoint", "Formatter.endpoint"} =>
    /\ last.args.category \notin DOMAIN Endpoints =>
         /\ last.res.kind = "raise"
         /\ last.res.exc.type = "AttributeError"
         /\ last.res.sent = <<>>
    /\ (/\ last.args.category \in DOMAIN Endpoints
        /\ "operation" \in DOMAIN last.args
        /\ last.args.operation \notin DOMAIN Endpoints[last.args.category]
        /\ last.args.operation \notin WrapperAttributes) =>
         /\ last.res.kind = "raise"
         /\ last.res.exc.type = "AttributeError"
         /\ last.res.sent = <<>>

C14_Witness ==
  /\ last.op = "getattr"
  /\ DOMAIN last.args = {"category"}
  /\ last.args.category = "NOPE"
  /\ last.res.kind = "raise"
  /\ last.res.exc.type = "AttributeError"

\* C15: for every category and operation name of the registry,
\* attribute-style and key-style access resolve the same entry, on the
\* static registry (Endpoints.C.O = Endpoints[C][O]) and on the category
\* wrapper of a live Formatter/Requester (wrapper.O and wrapper[O]).
C15_AttributeAndKeyAccessAgree ==
  /\ (last.op \in {"Endpoints.getattr", "Endpoints.getitem"} /\ NamesAnEntry) =>
       /\ last.res = Endpoints_attribute(last.args.category, last.args.operation)
       /\ last.res = Endpoints_item(last.args.category, last.args.operation)
       /\ last.res.kind = "ok"
  /\ (last.op \in {"getattr", "getitem"} /\ "operation" \in DOMAIN last.args
        /\ NamesAnEntry) =>
       /\ last.res = EndpointAccess(requester, last.args.category, last.args.operation)
       /\ last.res = EndpointItem(requester, last.args.category, last.args.operation)
       /\ last.res.kind = "ok"

\* The URLs a call produced: the one it returned, if it is a URL builder, and
\* those it handed to the transport.
SignedUrlOps == {"format", "endpoint"}

UrlsProduced ==
  {last.res.sent[i] : i \in 1..Len(last.res.sent)}
    \cup (IF last.op \in SignedUrlOps /\ last.res.kind = "ok"
            THEN {last.res.value} ELSE {})

\* The key, as it is or percent-encoded, stands in the URL before the digest
KeyInClear(url, key) ==
  \E i \in 1..(Len(url) - 1) :
    \E j \in i..(Len(url) - 1) :
      Str(SubSeq(url, i, j)) \in {Str(key), Str(quote_plus(key, "utf-8"))}

\* The same call on a Requester that differs only in its private key
WithKey(key) == [requester EXCEPT !.private_key = key]

ComparedKeys == PrivateKeys \cup {<<"other">>}

\* C16: the private key reaches a produced URL only through the signature:
\* two Requesters that differ only in the key, given the same endpoint and
\* parameters, produce URLs identical up to and including "&signature=" that
\* differ at most in the digest; the key is never a query parameter of a URL
\* built by format or handed to the transport.
C16_KeyOnlyThroughSignature ==
  /\ (last.op \notin {"init", "idle", "construct"}) =>
       \A url \in UrlsProduced : ~KeyInClear(url, requester.private_key)
  /\ (last.op = "format" /\ last.res.kind = "ok") =>
       \A key \in ComparedKeys :
         LET other == RequesterAbstract_format(WithKey(key), last.args.endpoint,
                                               last.args.queries)
             n == Len(last.res.value)
         IN  other.kind = "ok" =>
               /\ Len(other.value) = n
               /\ SubSeq(other.value, 1, n - 1) = SubSeq(last.res.value, 1, n - 1)
               /\ SubSeq(last.res.value, n - 3, n - 1) = <<"&", "signature", "=">>

C16_Witness ==
  /\ last.op = "format"
  /\ last.res.kind = "ok"
  /\ requester.private_key = <<"secret">>
  /\ LET other == RequesterAbstract_format(WithKey(<<"other">>), last.args.endpoint,
                                           last.args.queries)
         n == Len(last.res.value)
     IN  /\ other.kind = "ok"
         /\ SubSeq(other.value, 1, n - 1) = SubSeq(last.res.value, 1, n - 1)
         /\ other.value[n] /= last.res.value[n]

\* Every key of a URL the call built comes from the defaults or from the
\* call's own parameters (or is the signature)
UrlKeysAreOwn ==
  (last.op \in QueryOps /\ last.res.kind = "ok") =>
    PairKeys(last.res.value)
      \subseteq Keys(requester.queries) \cup Keys(last.args.queries) \cup {"signature"}

\* C17: after construction no format, format_queries, format_signature,
\* endpoint-wrapper access or call, post or subcomponent operation changes
\* the Requester's private key, base URL, API version or default parameters;
\* call-time parameters of one call never appear in the URL of a later call
\* that does not pass them.
C17_RequesterIsImmutable ==
  /\ [][last.op /= "init" => requester' = requester]_vars
  /\ []UrlKeysAreOwn
  /\ [](last.op = "construct" /\ last.res.kind = "ok" =>
          requester = RequesterAbstract_init(
                        last.args.key, last.args.game, last.args.response_format,
                        BASE_URL, last.args.version, last.args.kwargs).value)

C17_Witness ==
  /\ last.op = "format"
  /\ last.earlier = {"c"}
  /\ "c" \notin Keys(last.args.queries)
  /\ last.res.kind = "ok"
  /\ "c" \notin PairKeys(last.res.value)
  /\ Keys(requester.queries) = {"game_id", "format", "b", "a"}

\* post and the operations of the subcomponents
TransportOps ==
  TokenOps \cup {"post", "time.fetch", "users.fetch", "users.authenticate"}

\* The version guard lets the call through
VersionGuardPasses ==
  (last.op \in VersionGatedOps \/ GetKeysWithPattern) =>
    /\ Str(requester.api_version) \in DOMAIN VERSIONS
    /\ VERSIONS[Str(requester.api_version)] >= VERSIONS["v1_2"]

\* The token guard lets the call through
TokenGuardPasses ==
  TokenOpOnUser => "token" \in DOMAIN last.args.user /\ last.args.user.token /= None

\* The argument checks let the call through
ArgumentChecksPass ==
  /\ last.op \in {"data_store.fetch", "data_store.set", "data_store.update",
                 "data_store.remove", "data_store.get_keys"} =>
       /\ last.args.user /= NoArgument
       /\ IF ~IsUser(last.args.user) THEN last.args.user /= None
          ELSE IF last.op = "data_store.get_keys" THEN last.args.pattern /= None
          ELSE last.args.key /= None
  /\ last.op = "data_store.update" =>
       IF IsUser(last.args.user) THEN Len(last.args.rest) = 2
       ELSE Len(last.args.rest) >= 1
  /\ last.op = "users.fetch" =>
       LET users == <<last.args.id_or_username>> \o last.args.ids
       IN  \/ last.args.ids = <<>>
           \/ \A i \in 1..Len(users) : IsInt(users[i])
           \/ \A i \in 1..Len(users) : ~IsInt(users[i])

\* C18: one invocation of post, or of an operation of the users, sessions,
\* trophies, data store, friends or time subcomponent, hands at most one URL
\* to the transport whatever the outcome (success, remote failure, transport
\* or decoder exception), and exactly one when the version guard, the token
\* guard and the argument checks pass (the private key being one the signer
\* can encode).
C18_NoRetry ==
  last.op \in TransportOps =>
    /\ Len(last.res.sent) <= 1
    /\ (/\ VersionGuardPasses
        /\ TokenGuardPasses
        /\ ArgumentChecksPass
        /\ (last.op /= "post" => IsAscii(requester.private_key)))
         => Len(last.res.sent) = 1

C18_Witness ==
  /\ last.op = "trophies.add_achieved"
  /\ last.args.stub.kind = "post_raises"
  /\ VersionGuardPasses /\ TokenGuardPasses /\ ArgumentChecksPass
  /\ Len(last.res.sent) = 1
  /\ last.res.kind = "raise"
  /\ transport_calls = 1

\* What the collaborators raise on this call: the transport's error if _post
\* raises, else the decoder's if evaluate raises
CollaboratorError(stub) ==
  LET response == RequesterAbstract__post(requester, <<>>, stub)
  IN  IF Raised(response) THEN response.exc
      ELSE RequesterAbstract_evaluate(requester, response.value).exc

C20_VersionTokenIsEnumerated ==
  /\ requester /= None => Str(requester.api_version) \in DOMAIN VERSIONS
  /\ (last.op = "construct" /\ last.res.kind = "ok" /\ "omitted" \in DOMAIN last.args)
       => requester.api_version = <<"v1_2">>
  /\ (last.op \in VersionGatedOps \/ GetKeysWithPattern) =>
       ~(/\ last.res.kind = "raise"
         /\ last.res.exc.type = "KeyError"
         /\ last.res.exc.msg = Str(requester.api_version))

C20_Witness ==
  /\ last.op = "time.fetch"
  /\ requester.api_version = <<"v2">>
  /\ last.res = Raise(Exc("KeyError", "v2"), <<>>)
  /\ transport_calls = 0

\* C21: every URL a subcomponent operation hands to the transport, whatever
\* was called before, is one the owning Requester's format produces: it
\* starts with base_url + api_version + a path of the endpoint registry,
\* carries game_id and format with the configured values, and ends with
\* "&signature=" and the digest of all that precedes it followed by the
\* private key.
C21_SentUrlsAreSigned ==
  (last.op \in TransportOps \ {"post"}) =>
    \A i \in 1..Len(last.res.sent) :
      LET url == last.res.sent[i]
          n == Len(url)
      IN  /\ \E name \in RegistryNames :
               LET start == requester.base_url \o requester.api_version
                              \o Endpoints[name[1]][name[2]] \o <<"?">>
               IN  Len(start) <= n /\ SubSeq(url, 1, Len(start)) = start
          /\ SentCarries(<<url>>, "game_id", Get(requester.queries, "game_id"))
          /\ SentCarries(<<url>>, "format", Get(requester.queries, "format"))
          /\ n >= 4
          /\ SubSeq(url, n - 3, n - 1) = <<"&", "signature", "=">>
          /\ url[n] = md5_hexdigest(Str(SubSeq(url, 1, n - 4))
                                      \o Str(requester.private_key))

C21_Witness ==
  /\ last.op = "data_store.set"
  /\ Len(last.res.sent) = 1
  /\ Get(requester.queries, "game_id") = PStr(<<"my", " ", "game">>)
  /\ SentCarries(last.res.sent, "game_id", PStr(<<"my", " ", "game">>))
  /\ SentCarries(last.res.sent, "format", PStr(<<"xml">>))
  /\ SentCarries(last.res.sent, "b", PStr(<<"x">>))
  /\ requester.api_version = <<"v1_1">>

\* C22: when the remote failure message of trophies.add_achieved or
\* trophies.remove_achieved is none of the three known trophy messages (an
\* unknown text, null, or no message at all), the operation raises the
\* ApiError that post raised, with the decoded message and the failing
\* Response: not a trophy error and not a new error.
C22_UnknownTrophyFailureReraised ==
  (/\ last.op \in {"trophies.add_achieved", "trophies.remove_achieved"}
   /\ last.res.sent /= <<>>
   /\ DecodedFailure(last.args.stub)
   /\ "message" \in DOMAIN last.args.stub.evaled
         => TrophyErrorOf(last.args.stub.evaled.message) = "ApiError") =>
    /\ last.res.kind = "raise"
    /\ last.res.exc
         = ApiError(ExpectedResponse(last.args.stub.evaled).message,
                    ExpectedResponse(last.args.stub.evaled))

C22_Witness ==
  /\ last.op = "trophies.add_achieved"
  /\ DecodedFailure(last.args.stub)
  /\ "message" \notin DOMAIN last.args.stub.evaled
  /\ Len(last.res.sent) = 1
  /\ last.res.kind = "raise"
  /\ last.res.exc = Exc("KeyError", "message")

\* C23: on a v1_2 Requester and for a user holding a token, sessions.check
\* returns True when the remote reports success, returns False without
\* raising when the remote reports failure with no message (the message
\* absent from the decoded result, or null), and raises the ApiError of post
\* when the failure carries a message.
C23_SessionsCheckIsBoolean ==
  (/\ last.op = "sessions.check"
   /\ requester.api_version = <<"v1_2">>
   /\ IsAscii(requester.private_key)
   /\ HoldsToken(last.args.user)
   /\ last.args.stub.kind = "decoded") =>
    LET expected == ExpectedResponse(last.args.stub.evaled)
    IN  IF expected.success
          THEN last.res.kind = "ok" /\ last.res.value = TRUE
        ELSE IF expected.message = None
          THEN last.res.kind = "ok" /\ last.res.value = FALSE
        ELSE /\ last.res.kind = "raise"
             /\ last.res.exc = ApiError(expected.message, expected)

C23_Witness ==
  /\ last.op = "sessions.check"
  /\ requester.api_version = <<"v1_2">>
  /\ HoldsToken(last.args.user)
  /\ DecodedFailure(last.args.stub)
  /\ "message" \notin DOMAIN last.args.stub.evaled
  /\ Len(last.res.sent) = 1
  /\ last.res.kind = "raise"
  /\ last.res.exc = Exc("KeyError", "message")

\* C24: for the operations that are both version-gated and token-required
\* (sessions.check, trophies.remove_achieved, friends.fetch) the version is
\* checked before the token: on a Requester older than v1_2, called with a
\* user whose token is None, the error is the version-mismatch ValueError and
\* not the missing-token one; at v1_2 the same call fails with the
\* missing-token ValueError; in both cases nothing is signed (a key that
\* cannot be signed with raises no error of its own) and nothing is sent.
C24_VersionCheckedBeforeToken ==
  (/\ last.op \in {"sessions.check", "trophies.remove_achieved", "friends.fetch"}
   /\ "token" \in DOMAIN last.args.user
   /\ last.args.user.token = None
   /\ Str(requester.api_version) \in DOMAIN VERSIONS) =>
    last.res = Raise(IF OlderThanV1_2
                       THEN Exc("ValueError", "API version mismatch")
                       ELSE Exc("ValueError", "A user token is required."),
                     <<>>)

C24_Witness ==
  /\ last.op = "sessions.check"
  /\ requester.api_version = <<"v1_1">>
  /\ requester.private_key = <<"cl", "é">>
  /\ "token" \in DOMAIN last.args.user
  /\ last.args.user.token = None
  /\ last.res = Raise(Exc("ValueError", "API version mismatch"), <<>>)
  /\ transport_calls = 0

\* C25: users.fetch with more than one identifier accepts integers only: if
\* one of them is a string it raises TypeError and sends nothing; if all are
\* integers it sends one USERS.FETCH request whose user_id is the identifiers
\* joined by commas in argument order and returns a list of users. With one
\* identifier it sends user_id (an integer) or username (a string) and
\* returns one user, not a list.
C25_UsersFetchShapes ==
  last.op = "users.fetch" =>
    LET users == <<last.args.id_or_username>> \o last.args.ids
        answered == /\ RemoteSuccess(last.args.stub)
                    /\ "users" \in DOMAIN last.args.stub.evaled.response
                    /\ IsAscii(requester.private_key)
    IN  IF Len(users) > 1 /\ instance_checker("str", users)
          THEN /\ last.res.kind = "raise"
               /\ last.res.exc.type = "TypeError"
               /\ last.res.sent = <<>>
        ELSE answered =>
               /\ SentTo(last.res.sent, Endpoints.USERS.FETCH)
               /\ IF IsInt(users[1])
                    THEN SentCarries(last.res.sent, "user_id", PStr(JoinComma(users)))
                    ELSE SentCarries(last.res.sent, "username", users[1])
               /\ last.res.kind = "ok"
               /\ IF Len(users) > 1
                    THEN DOMAIN last.res.value = 1..Len(last.res.value)
                    ELSE DOMAIN last.res.value = UserFields

C25_Witness ==
  /\ last.op = "users.fetch"
  /\ last.args.id_or_username = PInt(1)
  /\ last.args.ids = <<>>
  /\ RemoteSuccess(last.args.stub)
  /\ "users" \in DOMAIN last.args.stub.evaled.response
  /\ requester.private_key = <<"secret">>
  /\ last.res.kind = "raise"
  /\ last.res.exc.type = "NotImplementedError"
  /\ last.res.sent = <<>>

\* C26: data-store fetch, set, update and remove dispatch on the first
\* argument. A user holding a token: the request carries username,
\* user_token and the key given second (and the data, or the operation and
\* the value, given after it). A string: it is the key, the request carries
\* neither username nor user_token, and the data, or the operation and the
\* value, are the arguments after it. In either shape a null key fails with
\* ValueError and nothing is sent.
C26_DataStoreTargetDispatch ==
  (/\ last.op \in {"data_store.fetch", "data_store.set", "data_store.update",
                   "data_store.remove"}
   /\ IsAscii(requester.private_key)
   /\ HoldsToken(last.args.user) \/ IsStr(last.args.user) \/ last.args.user = None) =>
    LET of_user == IsUser(last.args.user)
        key == IF of_user THEN last.args.key ELSE last.args.user
        sent == last.res.sent
    IN  IF key = None
          THEN /\ last.res.kind = "raise"
               /\ last.res.exc.type = "ValueError"
               /\ sent = <<>>
        ELSE (last.op = "data_store.update"
                => Len(last.args.rest) = (IF of_user THEN 2 ELSE 1)) =>
          /\ SentTo(sent, CASE last.op = "data_store.fetch" -> Endpoints.DATASTORE.FETCH
                            [] last.op = "data_store.set" -> Endpoints.DATASTORE.SET
                            [] last.op = "data_store.update" -> Endpoints.DATASTORE.UPDATE
                            [] OTHER -> Endpoints.DATASTORE.REMOVE)
          /\ SentCarries(sent, "key", key)
          /\ IF of_user
               THEN /\ SentCarries(sent, "username", last.args.user.username)
                    /\ SentCarries(sent, "user_token", last.args.user.token)
               ELSE {"username", "user_token"} \cap PairKeys(sent[1]) = {}
          /\ last.op = "data_store.set" =>
               SentCarries(sent, "data",
                           IF of_user THEN last.args.data ELSE last.args.key)
          /\ last.op = "data_store.update" =>
               /\ SentCarries(sent, "operation",
                              IF of_user THEN last.args.rest[1] ELSE last.args.key)
               /\ SentCarries(sent, "value",
                              IF of_user THEN last.args.rest[2] ELSE last.args.rest[1])

C26_Witness ==
  /\ last.op = "data_store.update"
  /\ last.args.user = PStr(<<"k">>)
  /\ last.args.key = PStr(<<"k2">>)
  /\ last.args.rest = <<PInt(1)>>
  /\ Len(last.res.sent) = 1
  /\ SentCarries(last.res.sent, "key", PStr(<<"k">>))
  /\ SentCarries(last.res.sent, "operation", PStr(<<"k2">>))
  /\ SentCarries(last.res.sent, "value", PInt(1))
  /\ PairKeys(last.res.sent[1])
       = {"game_id", "format", "key", "operation", "value", "signature"}

====
